---- MODULE Spec2Model ----
(***************************************************************************)
(* Model of the usage tracker (scripts/auto_tracker.py) and of the cost    *)
(* dashboard (scripts/dashboard.py).                                       *)
(*                                                                         *)
(* Conventions                                                             *)
(*  - a string the code inspects character by character (a model name) is  *)
(*    a sequence of one-character strings;                                 *)
(*  - a price is kept in hundredths of a dollar per 1,000,000 tokens, so   *)
(*    tokens * price is an amount in 1e-8 dollars; a cost rounded to six   *)
(*    decimals is an integer number of micro-dollars (1e-6 dollars);       *)
(*  - a JSON document is a tagged value: [t |-> "list", items |-> seq],    *)
(*    [t |-> "dict", fields |-> record] or [t |-> "other"] (a number, a    *)
(*    string, null); a usage record inside a list is a TLA+ record;        *)
(*  - a timestamp is the tick of a clock that advances with every call;    *)
(*    the tracker writes it with the suffix 'Z' (zulu |-> TRUE).           *)
(***************************************************************************)
EXTENDS Integers, Sequences, FiniteSets, TLC

(***************************************************************************)
(* Bounds of the model                                                     *)
(***************************************************************************)
\* tracked calls started in one run of the concurrent specification
MaxCalls == 2
\* appends made after the preloaded log in the sequential specification
MaxAppends == 6
\* largest log the sequential specification starts from
MaxPreloaded == 1000

(***************************************************************************)
(* Model names                                                             *)
(***************************************************************************)
GPT4 == <<"g","p","t","-","4">>
GPT4Turbo == GPT4 \o <<"-","t","u","r","b","o">>
GPT4o == GPT4 \o <<"o">>
GPT4oMini == GPT4o \o <<"-","m","i","n","i">>
GPT35Turbo == <<"g","p","t","-","3",".","5","-","t","u","r","b","o">>
GPT4oUpper == <<"G","P","T","-","4","O">>
Mystery == <<"m","y","s","t","e","r","y","-","m","o","d","e","l","-","9","0","0","0">>

GPT35TurboUpper == <<"G","P","T","-","3",".","5","-","T","U","R","B","O">>
OpenAiGPT35Turbo == <<"o","p","e","n","a","i","/">> \o GPT35Turbo

ModelNames ==
    {GPT4, GPT4Turbo, GPT4o, GPT4oMini, GPT35Turbo, GPT4oUpper, Mystery,
     GPT35TurboUpper, OpenAiGPT35Turbo}

(***************************************************************************)
(* auto_tracker.PRICING, in insertion order (the order a dict iterates)    *)
(***************************************************************************)
PRICING_KEYS == <<GPT4, GPT4Turbo, GPT4o, GPT4oMini, GPT35Turbo>>

PRICING(key) ==
    CASE key = GPT4 -> [input |-> 3000, output |-> 6000]
      [] key = GPT4Turbo -> [input |-> 1000, output |-> 3000]
      [] key = GPT4o -> [input |-> 250, output |-> 1000]
      [] key = GPT4oMini -> [input |-> 15, output |-> 60]
      [] key = GPT35Turbo -> [input |-> 50, output |-> 150]

\* str.startswith
StartsWith(s, prefix) ==
    /\ Len(prefix) <= Len(s)
    /\ SubSeq(s, 1, Len(prefix)) = prefix

\* the loop of calculate_cost: the first key, in iteration order, that the
\* model name starts with; 0 when the loop ends without a break
FirstMatch(model) ==
    LET hits == {i \in 1..Len(PRICING_KEYS) : StartsWith(model, PRICING_KEYS[i])}
    IN IF hits = {} THEN 0
       ELSE CHOOSE i \in hits : \A j \in hits : i <= j

\* a fallback to the cheapest entry
ResolvePricing_CheapFallback(model) ==
    IF FirstMatch(model) = 0 THEN PRICING(GPT4oMini)
    ELSE PRICING(PRICING_KEYS[FirstMatch(model)])

\* the pricing entry calculate_cost bills at
ResolvePricing(model) ==
    IF FirstMatch(model) = 0 THEN PRICING(GPT4)
    ELSE PRICING(PRICING_KEYS[FirstMatch(model)])

\* round(x, 4) of an amount x given in 1e-8 dollars, in micro-dollars
Round6_FourDecimals(x) ==
    LET q == x \div 10000
        r == x % 10000
    IN 100 * (IF r < 5000 THEN q
              ELSE IF r > 5000 THEN q + 1
              ELSE IF q % 2 = 0 THEN q ELSE q + 1)

\* round(x, 6) of an amount x given in 1e-8 dollars: micro-dollars, ties to even
Round6(x) ==
    LET q == x \div 100
        r == x % 100
    IN IF r < 50 THEN q
       ELSE IF r > 50 THEN q + 1
       ELSE IF q % 2 = 0 THEN q ELSE q + 1

calculate_cost(model, input_tokens, output_tokens) ==
    LET pricing == ResolvePricing(model)
        input_cost == input_tokens * pricing.input
        output_cost == output_tokens * pricing.output
    IN Round6(input_cost + output_cost)

(***************************************************************************)
(* track_usage: the agent name and the record it builds                    *)
(***************************************************************************)
Unset == "<unset>"

\* GitHub workflow names and the phrases track_usage looks for in them
Workflows == {"Unit Test Generator", "AI PR Review", "Regression Suite", "Deploy"}

WorkflowContains(workflow, phrase) ==
    \/ workflow = "Unit Test Generator" /\ phrase = "Unit Test"
    \/ workflow = "AI PR Review" /\ phrase = "PR Review"
    \/ workflow = "Regression Suite" /\ phrase = "Regression"

\* the process environment: os.environ restricted to the variables read
Envs ==
    { [AGENT_NAME |-> Unset, GITHUB_WORKFLOW |-> Unset, GITHUB_RUN_ID |-> Unset,
        GITHUB_REPOSITORY |-> Unset],
      [AGENT_NAME |-> Unset, GITHUB_WORKFLOW |-> "AI PR Review", GITHUB_RUN_ID |-> "78",
        GITHUB_REPOSITORY |-> "olegsaveliev/sdlc"] }

DetectAgent(agent_name, env) ==
    IF agent_name # Unset /\ agent_name # "" THEN agent_name
    ELSE LET base == IF env.AGENT_NAME = Unset THEN "unknown" ELSE env.AGENT_NAME
             wf == env.GITHUB_WORKFLOW
         IN IF wf = Unset THEN base
            ELSE IF WorkflowContains(wf, "Unit Test") THEN "unit_tests"
            ELSE IF WorkflowContains(wf, "PR Review") THEN "pr_review"
            ELSE IF WorkflowContains(wf, "Automation Test")
                    \/ WorkflowContains(wf, "Regression") THEN "auto_test"
            ELSE base

\* datetime.utcnow().isoformat() + 'Z'
UtcNowIsoZ(now) == [instant |-> now, zulu |-> TRUE]

\* track_usage with total_tokens taken from the input tokens alone
BuildData_TotalIsInput(model, input_tokens, output_tokens, agent_name, metadata, env, now) ==
    [ timestamp |-> UtcNowIsoZ(now),
      agent |-> DetectAgent(agent_name, env),
      model |-> model,
      tokens |-> [input |-> input_tokens, output |-> output_tokens, total |-> input_tokens],
      cost_usd |-> calculate_cost(model, input_tokens, output_tokens),
      metadata |-> metadata,
      environment |-> [github_workflow |-> env.GITHUB_WORKFLOW,
                       github_run_id |-> env.GITHUB_RUN_ID,
                       github_repository |-> env.GITHUB_REPOSITORY] ]

\* the dict track_usage builds (lines 155-176)
BuildData(model, input_tokens, output_tokens, agent_name, metadata, env, now) ==
    [ timestamp |-> UtcNowIsoZ(now),
      agent |-> DetectAgent(agent_name, env),
      model |-> model,
      tokens |-> [input |-> input_tokens,
                  output |-> output_tokens,
                  total |-> input_tokens + output_tokens],
      cost_usd |-> calculate_cost(model, input_tokens, output_tokens),
      metadata |-> metadata,
      environment |-> [github_workflow |-> env.GITHUB_WORKFLOW,
                       github_run_id |-> env.GITHUB_RUN_ID,
                       github_repository |-> env.GITHUB_REPOSITORY] ]

(***************************************************************************)
(* send_usage_data: the stored document and what is read from it           *)
(***************************************************************************)
JList(items) == [t |-> "list", items |-> items]
JDict(fields) == [t |-> "dict", fields |-> fields]
JOther == [t |-> "other"]
\* the bin does not exist on the server: a GET answers 404
BinAbsent == [t |-> "absent"]
\* the server answers 200 with a body that is not JSON
BinGarbage == [t |-> "garbage"]

IsDict(v) == v.t = "dict"
IsList(v) == v.t = "list"
HasKey(v, k) == IsDict(v) /\ k \in DOMAIN v.fields

\* what a JSONBin GET answers for a stored document: {"record": ..., "metadata": ...}
GetResponseJson(doc) == JDict([record |-> doc, metadata |-> JOther])

\* the extraction without the branch for a list nested under 'data'
ExtractRecords_IgnoreData(response_data) ==
    LET records ==
            IF HasKey(response_data, "record")
            THEN LET record == response_data.fields["record"]
                 IN IF IsList(record) THEN record ELSE JList(<<>>)
            ELSE IF IsList(response_data) THEN response_data ELSE JList(<<>>)
    IN IF IsList(records) THEN records.items ELSE <<>>

\* lines 83-99: the list of records found in the response
ExtractRecords(response_data) ==
    LET records ==
            IF HasKey(response_data, "record")
            THEN LET record == response_data.fields["record"]
                 IN IF HasKey(record, "data") THEN record.fields["data"]
                    ELSE IF IsList(record) THEN record
                    ELSE JList(<<>>)
            ELSE IF IsList(response_data) THEN response_data ELSE JList(<<>>)
    IN IF IsList(records) THEN records.items ELSE <<>>

\* a PUT body that names the list 'records'
PutData_Records(records) == JDict([records |-> JList(records)])

\* line 106: the body of the PUT
PutData(records) == JDict([data |-> JList(records)])

\* the log a reader of the bin sees
PersistedLog(doc) ==
    IF doc.t \in {"absent", "garbage"} THEN <<>>
    ELSE ExtractRecords(GetResponseJson(doc))

(***************************************************************************)
(* State                                                                   *)
(***************************************************************************)
VARIABLES
    bin,         \* the document stored at TRACKER_ENDPOINT
    configured,  \* TRACKER_ENDPOINT is set and does not hold 'YOUR_BIN_ID'
    writers,     \* the processes that run the tracker
    calls,       \* operations started so far
    clock,       \* the tick datetime.utcnow() returns next
    pc,          \* per process: "idle", "get" (before the GET), "put" (before the PUT)
    data,        \* per process: the record track_usage built
    local,       \* per process: the list `records` after line 102
    last,        \* per process: how its last operation ended
    version,     \* history: number of PUTs the server accepted
    readVer,     \* history: per process, `version` at its GET
    acked,       \* history: the records whose send_usage_data returned True
    costCall,    \* a call of calculate_cost: its arguments and, once made, its result
    metricsFile, \* dashboard: the content of metrics.json
    nowHours,    \* dashboard: datetime.now(), in hours
    served,      \* dashboard: the answer to the last request
    calc,        \* calculator: a call or request and, once made, its outcome
    approval,    \* approval checker: a pull request and, once checked, the decision
    pr           \* review agent: the pull request's comments and the run of the agent

recorderVars == <<bin, configured, writers, calls, clock, pc, data, local, last,
                  version, readVer, acked>>

dashVars == <<metricsFile, nowHours, served>>

toolVars == <<calc, approval, pr>>

vars == <<recorderVars, costCall, dashVars, toolVars>>

Procs == {1, 2}

\* documents the bin may hold before the tracker first writes to it
InitialDocs ==
    { BinAbsent, BinGarbage, JOther,
      JList(<<>>),
      JDict([data |-> JList(<<>>)]),
      JDict([data |-> JOther]),
      JDict([name |-> JOther]) }

\* how an operation ended: the entry point called; "raised" or "returned"; the
\* response of the wrapped call and what the caller got back; the record built;
\* what the GET found and how the PUT went ("none": not made); send_usage_data's result
Ended(call, result, response, returned, built, get, put, sent) ==
    [call |-> call, result |-> result, response |-> response, returned |-> returned,
     built |-> built, get |-> get, put |-> put, sent |-> sent]

NoOp == Ended("none", "none", <<>>, <<>>, <<>>, "none", "none", FALSE)

NoCostCall == [model |-> <<>>, input_tokens |-> 0, output_tokens |-> 0, result |-> <<>>]

\* `metrics` is the list the view loaded, as it is after calculate_stats returned
NotServed == [route |-> "none", status |-> 0, body |-> <<>>, metrics |-> <<>>]

NoCalc == [call |-> <<>>, outcome |-> <<>>]
NoApproval == [input |-> <<>>, decision |-> <<>>]
NoPr == [phase |-> "off"]

\* the calculator, the approval checker and the review agent are not running
ToolsOff ==
    /\ calc = NoCalc
    /\ approval = NoApproval
    /\ pr = NoPr

\* the dashboard is not running
DashboardOff ==
    /\ metricsFile = [t |-> "absent"]
    /\ nowHours = 0
    /\ served = NotServed

InitRecorder(ws) ==
    /\ costCall = NoCostCall
    /\ DashboardOff
    /\ ToolsOff
    /\ bin \in InitialDocs
    /\ configured \in BOOLEAN
    /\ writers = ws
    /\ calls = 0
    /\ clock = 1
    /\ pc = [p \in Procs |-> "idle"]
    /\ data = [p \in Procs |-> <<>>]
    /\ local = [p \in Procs |-> <<>>]
    /\ last = [p \in Procs |-> NoOp]
    /\ version = 0
    /\ readVer = [p \in Procs |-> 0]
    /\ acked = {}

(***************************************************************************)
(* track_openai / tracked_create, log_usage                                *)
(***************************************************************************)
\* the model= keyword of the wrapped call (<<>>: not given)
KwModels == {<<GPT4oMini>>, <<>>}

\* what original_create does: raises, or returns a response
Responses ==
    { [model |-> GPT35Turbo, usage |-> <<>>],
      [model |-> GPT35Turbo, usage |-> <<[prompt_tokens |-> 1000, completion_tokens |-> 2000]>>] }

\* lines 218-222
CallMetadata == [messages_count |-> 1, temperature |-> "None", max_tokens |-> "None"]

\* track_usage up to the call of send_usage_data (line 179); an unconfigured
\* endpoint makes send_usage_data return False at once (lines 63-66)
TrackUsageStart(p, call, response, d) ==
    /\ data' = [data EXCEPT ![p] = <<d>>]
    /\ clock' = clock + 1
    /\ IF configured
       THEN /\ pc' = [pc EXCEPT ![p] = "get"]
            /\ last' = [last EXCEPT ![p] = Ended(call, "running", response, <<>>, <<d>>, "none", "none", FALSE)]
       ELSE /\ pc' = pc
            /\ last' = [last EXCEPT ![p] = Ended(call, "returned", response, response, <<d>>, "none", "none", FALSE)]

\* tracked_create raises what original_create raises (line 206)
TrackedCreateRaises(p) ==
    /\ p \in writers /\ pc[p] = "idle" /\ calls < MaxCalls
    /\ calls' = calls + 1
    /\ last' = [last EXCEPT ![p] = Ended("tracked_create", "raised", <<>>, <<>>, <<>>, "none", "none", FALSE)]
    /\ UNCHANGED <<bin, configured, writers, clock, pc, data, local, version, readVer, acked, costCall, dashVars, toolVars>>

\* tracked_create with a response (lines 206-225)
TrackedCreate(p) ==
    /\ p \in writers /\ pc[p] = "idle" /\ calls < MaxCalls
    /\ calls' = calls + 1
    /\ \E response \in Responses, kw \in KwModels, env \in Envs :
          IF response.usage = <<>>
          THEN /\ last' = [last EXCEPT ![p] = Ended("tracked_create", "returned", <<response>>, <<response>>,
                                     <<>>, "none", "none", FALSE)]
               /\ UNCHANGED <<clock, pc, data>>
          ELSE LET usage == response.usage[1]
                   model == IF kw = <<>> THEN response.model ELSE kw[1]
               IN TrackUsageStart(p, "tracked_create", <<response>>,
                      BuildData(model, usage.prompt_tokens, usage.completion_tokens,
                                Unset, CallMetadata, env, clock))
    /\ UNCHANGED <<bin, configured, writers, local, version, readVer, acked, costCall, dashVars, toolVars>>

\* log_usage(agent_name, model, input_tokens, output_tokens, **metadata)
LogUsage(p) ==
    /\ p \in writers /\ pc[p] = "idle" /\ calls < MaxCalls
    /\ calls' = calls + 1
    /\ \E agent_name \in {"my_agent", ""}, env \in Envs :
          TrackUsageStart(p, "log_usage", <<>>,
              BuildData(GPT4, 1000, 500, agent_name, [task |-> "code_review"], env, clock))
    /\ UNCHANGED <<bin, configured, writers, local, version, readVer, acked, costCall, dashVars, toolVars>>

\* the shape of the stored document, as a GET finds it
DocShape(doc) ==
    IF doc.t \in {"absent", "garbage"} THEN doc.t
    ELSE IF \/ IsList(doc)
            \/ HasKey(doc, "data") /\ IsList(doc.fields["data"]) THEN "wellformed"
    ELSE "illformed"

\* send_usage_data letting a failure of the store through to the caller
Return_FailureRaises(p, get, put, sent) ==
    /\ pc' = [pc EXCEPT ![p] = "idle"]
    /\ last' = [last EXCEPT ![p] = [last[p] EXCEPT !.result = IF sent THEN "returned" ELSE "raised",
                                                   !.returned = IF sent THEN last[p].response ELSE <<>>,
                                                   !.get = get, !.put = put,
                                                   !.sent = sent]]

\* send_usage_data returns `sent`; track_usage returns data, tracked_create the response
Return(p, get, put, sent) ==
    /\ pc' = [pc EXCEPT ![p] = "idle"]
    /\ last' = [last EXCEPT ![p] = [last[p] EXCEPT !.result = "returned",
                                                   !.returned = last[p].response,
                                                   !.get = get, !.put = put,
                                                   !.sent = sent]]

\* lines 74-102: the GET, and the list built from its answer. The request may
\* raise (network, timeout), the server may answer an error of its own, or it
\* answers for the bin: 404 for a bin that does not exist, else 200 with its text
Get(p) ==
    /\ pc[p] = "get"
    /\ \E answer \in {"exception", "http_error", "server"} :
          IF answer \in {"exception", "http_error"}
          THEN /\ Return(p, answer, "none", FALSE)
               /\ UNCHANGED <<local, readVer>>
          ELSE IF bin.t \in {"absent", "garbage"}
          THEN \* a status other than 200 (line 122), or .json() raises (line 127)
               /\ Return(p, DocShape(bin), "none", FALSE)
               /\ UNCHANGED <<local, readVer>>
          ELSE /\ local' = [local EXCEPT ![p] =
                               Append(ExtractRecords(GetResponseJson(bin)), data[p][1])]
               /\ readVer' = [readVer EXCEPT ![p] = version]
               /\ pc' = [pc EXCEPT ![p] = "put"]
               /\ last' = [last EXCEPT ![p] = [last[p] EXCEPT !.get = DocShape(bin)]]
    /\ UNCHANGED <<bin, configured, writers, calls, clock, data, version, acked, costCall, dashVars, toolVars>>

\* a store that appends the writer's new record to the list it holds
StoredAfterPut_Appending(doc, records) ==
    [t |-> "dict",
     fields |-> [data |-> [t |-> "list",
                           items |-> Append(IF doc.t = "dict" /\ "data" \in DOMAIN doc.fields
                                               /\ doc.fields["data"].t = "list"
                                            THEN doc.fields["data"].items ELSE <<>>,
                                            records[Len(records)])]]]

\* the document the server holds after it accepted a PUT of `records` over `doc`
StoredAfterPut(doc, records) == PutData(records)

\* lines 104-121: the PUT
Put(p) ==
    /\ pc[p] = "put"
    /\ \E answer \in {"exception", "http_error", "ok"} :
          IF answer = "ok"
          THEN /\ bin' = StoredAfterPut(bin, local[p])
               /\ version' = version + 1
               /\ acked' = acked \cup {data[p][1]}
               /\ Return(p, last[p].get, "ok", TRUE)
          ELSE /\ Return(p, last[p].get, answer, FALSE)
               /\ UNCHANGED <<bin, version, acked>>
    /\ UNCHANGED <<configured, writers, calls, clock, data, local, readVer, costCall, dashVars, toolVars>>

Init == InitRecorder(Procs)

Next ==
    \E p \in Procs :
        \/ TrackedCreateRaises(p)
        \/ TrackedCreate(p)
        \/ LogUsage(p)
        \/ Get(p)
        \/ Put(p)

\* two tracker processes against one bin
Spec == Init /\ [][Next]_vars

\* a single tracker process
InitSingle == InitRecorder({1})
SpecSingle == InitSingle /\ [][Next]_vars

(***************************************************************************)
(* calculate_cost on its own                                               *)
(***************************************************************************)
TokenCounts == {0, 1, 3, 1000, 2000}

InitCostCall ==
    /\ costCall \in [model : {<<m>> : m \in ModelNames}, input_tokens : TokenCounts,
                     output_tokens : TokenCounts, result : {<<>>}]
    /\ DashboardOff
    /\ ToolsOff
    /\ bin = JList(<<>>) /\ configured = TRUE /\ writers = {}
    /\ calls = 0 /\ clock = 1
    /\ pc = [p \in Procs |-> "idle"]
    /\ data = [p \in Procs |-> <<>>]
    /\ local = [p \in Procs |-> <<>>]
    /\ last = [p \in Procs |-> NoOp]
    /\ version = 0
    /\ readVer = [p \in Procs |-> 0]
    /\ acked = {}

CalculateCost ==
    /\ costCall.model # <<>> /\ costCall.result = <<>>
    /\ costCall' = [costCall EXCEPT !.result =
                       <<calculate_cost(costCall.model[1], costCall.input_tokens,
                                        costCall.output_tokens)>>]
    /\ UNCHANGED <<recorderVars, dashVars, toolVars>>

SpecCost == InitCostCall /\ [][CalculateCost]_vars

(***************************************************************************)
(* One process recording call after call, every request answered 200       *)
(***************************************************************************)
\* the run of the module as a script (lines 266-272)
SelfTestData(env, now) ==
    BuildData(GPT4, 1000, 500, "test_agent", [test |-> TRUE], env, now)

SelfTestEnv == [AGENT_NAME |-> Unset, GITHUB_WORKFLOW |-> Unset, GITHUB_RUN_ID |-> Unset,
                GITHUB_REPOSITORY |-> Unset]

\* the log after n such runs from an empty bin
LogAfter(n) == [i \in 1..n |-> SelfTestData(SelfTestEnv, i)]

PreloadSizes == {0} \cup {n \in 0..MaxPreloaded : n + 20 >= MaxPreloaded}

\* the bin holds the log of n earlier runs: PersistedLog(bin) = LogAfter(clock - 1)
\* in every state of SpecSequential, the runs made by RecordSequential included
InitSequential ==
    /\ \E n \in PreloadSizes :
          /\ bin = PutData(LogAfter(n))
          /\ clock = n + 1
          /\ version = n
    /\ costCall = NoCostCall
    /\ DashboardOff
    /\ ToolsOff
    /\ configured = TRUE /\ writers = {1}
    /\ calls = 0
    /\ pc = [p \in Procs |-> "idle"]
    /\ data = [p \in Procs |-> <<>>]
    /\ local = [p \in Procs |-> <<>>]
    /\ last = [p \in Procs |-> NoOp]
    /\ readVer = [p \in Procs |-> 0]
    /\ acked = {}

\* track_usage from line 155 to its return, send_usage_data taking the path
\* GET 200, append, PUT 200
RecordSequential ==
    /\ calls < MaxAppends
    /\ LET d == SelfTestData(SelfTestEnv, clock)
           records == Append(ExtractRecords(GetResponseJson(bin)), d)
       IN /\ bin' = StoredAfterPut(bin, records)
          /\ data' = [data EXCEPT ![1] = <<d>>]
          /\ acked' = acked \cup {d}
          /\ local' = [local EXCEPT ![1] = records]
          /\ last' = [last EXCEPT ![1] = Ended("track_usage", "returned", <<>>, <<>>, <<d>>, "wellformed", "ok", TRUE)]
    /\ calls' = calls + 1
    /\ clock' = clock + 1
    /\ readVer' = [readVer EXCEPT ![1] = version]
    /\ version' = version + 1
    /\ UNCHANGED <<configured, writers, pc, costCall, dashVars, toolVars>>

SpecSequential == InitSequential /\ [][RecordSequential]_vars

(***************************************************************************)
(* Properties of the tracker                                               *)
(***************************************************************************)
Range(seq) == {seq[i] : i \in 1..Len(seq)}

\* every record the tracker holds or has stored
AllRecords ==
    Range(PersistedLog(bin)) \cup acked
    \cup UNION {Range(data[p]) \cup Range(local[p]) \cup Range(last[p].built) : p \in Procs}

\* C1: calculate_cost("gpt-4o-mini", 1000, 2000) is 0.00135 dollars, the
\* gpt-4o-mini rates 0.15 / 0.60 being the ones applied
C1_GptMiniScenario ==
    ( /\ costCall.model = <<GPT4oMini>>
      /\ costCall.input_tokens = 1000
      /\ costCall.output_tokens = 2000
      /\ costCall.result # <<>> )
    => costCall.result = <<1350>>

\* C2: the persisted log holds at most 1000 records, the most recently
\* appended ones; after 1005 sequential appends its first record is the 6th
C2_RetentionBound ==
    /\ Len(PersistedLog(bin)) <= 1000
    /\ (clock - 1 = 1005 => PersistedLog(bin)[1].timestamp.instant = 6)

\* C3: when the wrapped call raises, a record with status Failed and zero
\* tokens is built and handed to the recorder
C3_FailureRecorded ==
    \A p \in Procs :
        last[p].result = "raised" =>
            /\ last[p].built # <<>>
            /\ "status" \in DOMAIN last[p].built[1]
            /\ last[p].built[1]["status"] = "Failed"
            /\ last[p].built[1].tokens.input = 0
            /\ last[p].built[1].tokens.output = 0

RecordFields ==
    {"timestamp", "agent", "model", "input_tokens", "output_tokens", "total_tokens",
     "cost", "execution_time", "status", "run_id"}

\* C4: every record built or persisted has exactly the fields timestamp, agent,
\* model, input_tokens, output_tokens, total_tokens, cost, execution_time,
\* status, run_id
C4_RecordFields == \A r \in AllRecords : DOMAIN r = RecordFields

\* two processes whose last operations both ended with an accepted PUT and
\* whose GETs read the same version of the bin: each read before the other wrote
Raced(p, q) ==
    /\ p # q
    /\ pc[p] = "idle" /\ pc[q] = "idle"
    /\ last[p].result = "returned" /\ last[q].result = "returned"
    /\ last[p].sent /\ last[q].sent
    /\ readVer[p] = readVer[q]

\* C5: two record operations that both read before either wrote both succeed,
\* and the log then holds exactly one of their two records
C5_LostUpdate ==
    \A p, q \in Procs :
        Raced(p, q) =>
            /\ {data[p][1], data[q][1]} \subseteq acked
            /\ Cardinality({data[p][1], data[q][1]} \cap Range(PersistedLog(bin))) = 1

C5_Witness == \E p, q \in Procs : Raced(p, q)

C7_TotalTokens ==
    \A r \in AllRecords : r.tokens.total = r.tokens.input + r.tokens.output

C7_Witness ==
    \E r \in Range(PersistedLog(bin)) :
        r.tokens.input = 1000 /\ r.tokens.output = 2000 /\ r.tokens.total = 3000

\* C8: an operation that finds the log missing, unreadable or not a list of
\* records returns without raising and goes on to write a log that consists
\* of exactly its new record
C8_UnreadableLogIsEmpty ==
    \A p \in Procs :
        ( /\ last[p].result = "returned"
          /\ last[p].get \in {"absent", "garbage", "illformed"} )
        => /\ last[p].put # "none"
           /\ local[p] = last[p].built

(***************************************************************************)
(* dashboard.py                                                            *)
(*                                                                         *)
(* A cost is an integer number of micro-dollars. The timestamp of a metric *)
(* is a string: `text` is its rank in the lexicographic order of strings,  *)
(* `form` says what datetime.fromisoformat makes of it ("iso": a naive     *)
(* datetime, `instant` hours after the epoch; "isoZ": the tracker's form   *)
(* with the suffix 'Z', which either does not parse or parses to an aware  *)
(* datetime that cannot be compared with the naive cutoff; "bad": does not *)
(* parse).                                                                 *)
(***************************************************************************)
\* longest metrics.json of the model
MaxFileLen == 2

\* dashboard.PRICING, in insertion order
DASH_PRICING_KEYS == <<"GPT-4", "GPT-4o", "GPT-4o mini", "Claude Sonnet 4", "Claude Opus 4">>

DASH_PRICING(key) ==
    CASE key = "GPT-4" -> [input |-> 3000, output |-> 6000, color |-> "#10b981"]
      [] key = "GPT-4o" -> [input |-> 250, output |-> 1000, color |-> "#059669"]
      [] key = "GPT-4o mini" -> [input |-> 15, output |-> 60, color |-> "#34d399"]
      [] key = "Claude Sonnet 4" -> [input |-> 300, output |-> 1500, color |-> "#667eea"]
      [] key = "Claude Opus 4" -> [input |-> 1500, output |-> 7500, color |-> "#9333ea"]

JNull == [t |-> "null"]
EmptyMap == [k \in {} |-> 0]

\* load_metrics without its try: a file that cannot be parsed raises
load_metrics_NoTry(file) ==
    IF file.t = "absent" THEN [t |-> "list", items |-> <<>>]
    ELSE IF file.t = "garbage" THEN [t |-> "raised"]
    ELSE file

\* load_metrics: the parsed file, or the empty list when the file is missing
\* or its content cannot be loaded
load_metrics(file) ==
    IF file.t = "absent" THEN JList(<<>>)
    ELSE IF file.t = "garbage" THEN JList(<<>>)
    ELSE file

\* a truth value that takes the empty list for data
Truthy_EmptyListToo(v) ==
    CASE v.t = "list" -> TRUE
      [] v.t = "dict" -> DOMAIN v.fields # {}
      [] v.t = "null" -> FALSE
      [] OTHER -> TRUE

\* Python's truth value of a parsed document
Truthy(v) ==
    CASE v.t = "list" -> v.items # <<>>
      [] v.t = "dict" -> DOMAIN v.fields # {}
      [] v.t = "null" -> FALSE
      [] OTHER -> TRUE

\* lines 47-56
NoDataStats ==
    [ total_cost |-> 0, total_tokens |-> 0, total_calls |-> 0,
      agents |-> EmptyMap, recent_activity |-> <<>>, daily_costs |-> EmptyMap,
      cost_comparison |-> EmptyMap, last_updated |-> <<"No data yet">> ]

Returned(stats) == [raised |-> FALSE, error |-> "", stats |-> <<stats>>]
Raised(error) == [raised |-> TRUE, error |-> error, stats |-> <<>>]

Lacking(ms, field) == \E i \in 1..Len(ms) : field \notin DOMAIN ms[i]

RECURSIVE SumField(_, _)
SumField(ms, field) ==
    IF ms = <<>> THEN 0 ELSE ms[1][field] + SumField(Tail(ms), field)

\* a selection that keeps every record
SelectSeq2_All(ms, field, value) == ms

RECURSIVE SelectSeq2(_, _, _)
\* the records of ms whose field has the value given, in order
SelectSeq2(ms, field, value) ==
    IF ms = <<>> THEN <<>>
    ELSE IF ms[1][field] = value THEN <<ms[1]>> \o SelectSeq2(Tail(ms), field, value)
    ELSE SelectSeq2(Tail(ms), field, value)

\* lines 64-69
AgentStats(ms) ==
    [a \in {ms[i]["agent"] : i \in 1..Len(ms)} |->
        LET mine == SelectSeq2(ms, "agent", a)
        IN [calls |-> Len(mine),
            tokens |-> SumField(mine, "total_tokens"),
            cost |-> SumField(mine, "cost")]]

\* the daily loop taking any timestamp as parsed and comparable
CountsForDay_AnyForm(m, at) ==
    /\ "timestamp" \in DOMAIN m
    /\ m["timestamp"].instant >= at - 30 * 24
    /\ "cost" \in DOMAIN m

\* the daily loop without the cutoff
CountsForDay_NoCutoff(m, at) ==
    /\ "timestamp" \in DOMAIN m
    /\ m["timestamp"].form = "iso"
    /\ "cost" \in DOMAIN m

\* lines 76-82: the record adds to daily_costs; anything raised inside the try
\* (no timestamp, a timestamp that does not parse or cannot be compared) skips it
CountsForDay(m, at) ==
    /\ "timestamp" \in DOMAIN m
    /\ m["timestamp"].form = "iso"
    /\ m["timestamp"].instant >= at - 30 * 24
    /\ "cost" \in DOMAIN m

DateKey(m) == m["timestamp"].instant \div 24

RECURSIVE SumDay(_, _, _)
SumDay(ms, at, day) ==
    IF ms = <<>> THEN 0
    ELSE (IF CountsForDay(ms[1], at) /\ DateKey(ms[1]) = day THEN ms[1]["cost"] ELSE 0)
         + SumDay(Tail(ms), at, day)

DailyCosts(ms, at) ==
    [d \in {DateKey(ms[i]) : i \in {j \in 1..Len(ms) : CountsForDay(ms[j], at)}} |->
        SumDay(ms, at, d)]

RECURSIVE InsertDesc_Strict(_, _)
\* an unstable insertion: m goes ahead of the records of equal timestamp
InsertDesc_Strict(sorted, m) ==
    IF sorted = <<>> THEN <<m>>
    ELSE IF sorted[1]["timestamp"].text > m["timestamp"].text
         THEN <<sorted[1]>> \o InsertDesc_Strict(Tail(sorted), m)
         ELSE <<m>> \o sorted

RECURSIVE InsertDesc(_, _)
\* m put after the records of the sorted list whose timestamp is not smaller
InsertDesc(sorted, m) ==
    IF sorted = <<>> THEN <<m>>
    ELSE IF sorted[1]["timestamp"].text >= m["timestamp"].text
         THEN <<sorted[1]>> \o InsertDesc(Tail(sorted), m)
         ELSE <<m>> \o sorted

RECURSIVE SortedDesc(_)
\* sorted(metrics, key=timestamp, reverse=True): stable
SortedDesc(ms) ==
    IF ms = <<>> THEN <<>>
    ELSE InsertDesc(SortedDesc(SubSeq(ms, 1, Len(ms) - 1)), ms[Len(ms)])

\* line 85
RecentActivity(ms) ==
    LET sorted == SortedDesc(ms)
    IN SubSeq(sorted, 1, IF Len(sorted) < 20 THEN Len(sorted) ELSE 20)

\* the comparison without the guard on total_cost
CostComparison_NoGuard(total_cost, total_input, total_output) ==
    [model \in {DASH_PRICING_KEYS[i] : i \in 1..Len(DASH_PRICING_KEYS)} |->
        LET pricing == DASH_PRICING(model)
            alt_cost == total_input * pricing.input + total_output * pricing.output
            savings == total_cost * 100 - alt_cost
        IN [cost |-> alt_cost,
            savings |-> savings,
            savings_pct |-> [num |-> savings, den |-> total_cost],
            color |-> pricing.color]]

\* lines 91-100; amounts in 1e-8 dollars, the percentage as a fraction
CostComparison(total_cost, total_input, total_output) ==
    [model \in {DASH_PRICING_KEYS[i] : i \in 1..Len(DASH_PRICING_KEYS)} |->
        LET pricing == DASH_PRICING(model)
            alt_cost == total_input * pricing.input + total_output * pricing.output
            savings == total_cost * 100 - alt_cost
        IN [cost |-> alt_cost,
            savings |-> savings,
            savings_pct |-> IF total_cost > 0
                            THEN [num |-> savings, den |-> total_cost]
                            ELSE [num |-> 0, den |-> 1],
            color |-> pricing.color]]

\* calculate_stats(metrics), datetime.now() being `at`
calculate_stats(metrics, at) ==
    IF ~Truthy(metrics) THEN Returned(NoDataStats)
    ELSE IF ~IsList(metrics) THEN Raised("TypeError")        \* line 59, m is no dict
    ELSE LET ms == metrics.items
         IN IF Lacking(ms, "cost") THEN Raised("KeyError")           \* line 59
            ELSE IF Lacking(ms, "total_tokens") THEN Raised("KeyError")   \* line 60
            ELSE IF Lacking(ms, "agent") THEN Raised("KeyError")          \* line 66
            ELSE IF Lacking(ms, "timestamp") THEN Raised("KeyError")      \* line 85
            ELSE IF Lacking(ms, "input_tokens") THEN Raised("KeyError")   \* line 88
            ELSE IF Lacking(ms, "output_tokens") THEN Raised("KeyError")  \* line 89
            ELSE LET total_cost == SumField(ms, "cost")
                 IN Returned(
                      [ total_cost |-> total_cost,
                        total_tokens |-> SumField(ms, "total_tokens"),
                        total_calls |-> Len(ms),
                        agents |-> AgentStats(ms),
                        recent_activity |-> RecentActivity(ms),
                        daily_costs |-> DailyCosts(ms, at),
                        cost_comparison |-> CostComparison(total_cost,
                                                SumField(ms, "input_tokens"),
                                                SumField(ms, "output_tokens")),
                        last_updated |-> <<"at", at>> ])

(***************************************************************************)
(* The dashboard's routes                                                  *)
(***************************************************************************)
Iso(h) == [text |-> 2 * h, form |-> "iso", instant |-> h]
IsoZ(h) == [text |-> 2 * h + 1, form |-> "isoZ", instant |-> h]
BadTimestamp == [text |-> 1000000, form |-> "bad", instant |-> 0]

Metric(agent, cost, input_tokens, output_tokens, timestamp) ==
    [ timestamp |-> timestamp, agent |-> agent, model |-> "gpt-4o-mini",
      input_tokens |-> input_tokens, output_tokens |-> output_tokens,
      total_tokens |-> input_tokens + output_tokens,
      cost |-> cost, execution_time |-> 2, status |-> "Success" ]

Without(m, field) == [f \in DOMAIN m \ {field} |-> m[f]]

\* the fields calculate_stats reads
StatsFields == {"cost", "total_tokens", "agent", "timestamp", "input_tokens", "output_tokens"}

SampleMetric == Metric("pr_review", 1500000, 1000, 500, Iso(2401))

MetricSamples ==
    { SampleMetric,
      Metric("unit_tests", 2250000, 2000, 1000, Iso(2405)),
      Metric("pr_review", 60000, 1000, 500, Iso(1440)),
      Metric("auto_test", 150000, 1000, 2000, BadTimestamp),
      Metric("auto_test", 90000, 500, 500, IsoZ(2405)),
      Metric("unit_tests", 0, 100, 50, Iso(2405)) }
    \cup {Without(SampleMetric, f) : f \in StatsFields}

MetricsFiles ==
    { [t |-> "absent"], [t |-> "garbage"], JNull, JOther,
      JDict([data |-> JList(<<>>)]) }
    \cup {JList(ms) : ms \in UNION {[1..n -> MetricSamples] : n \in 0..MaxFileLen}}

InitDashboard ==
    /\ metricsFile \in MetricsFiles
    /\ nowHours \in {2412, 2436}
    /\ served = NotServed
    /\ costCall = NoCostCall
    /\ ToolsOff
    /\ bin = JList(<<>>) /\ configured = TRUE /\ writers = {}
    /\ calls = 0 /\ clock = 1
    /\ pc = [p \in Procs |-> "idle"]
    /\ data = [p \in Procs |-> <<>>]
    /\ local = [p \in Procs |-> <<>>]
    /\ last = [p \in Procs |-> NoOp]
    /\ version = 0
    /\ readVer = [p \in Procs |-> 0]
    /\ acked = {}

\* calculate_stats sorting the list it was given in place (list.sort)
MetricsAfterStats_SortInPlace(metrics) ==
    IF IsList(metrics) /\ ~Lacking(metrics.items, "timestamp")
    THEN JList(SortedDesc(metrics.items))
    ELSE metrics

\* the list given to calculate_stats, after the call: lines 58-100 read it
\* through generators and sorted(), which builds a new list
MetricsAfterStats(metrics) == metrics

\* lines 590-592 and 581-582: load the file, compute the statistics
LoadAndCalculate(file, at) ==
    LET metrics == load_metrics(file)
    IN IF metrics.t = "raised" THEN Raised("load_metrics") ELSE calculate_stats(metrics, at)

\* GET /api/metrics: the statistics as JSON, or 500 when the view raises
ApiMetrics ==
    /\ LET r == LoadAndCalculate(metricsFile, nowHours)
       IN served' = IF r.raised
                    THEN [route |-> "/api/metrics", status |-> 500, body |-> <<>>,
                          metrics |-> <<MetricsAfterStats(load_metrics(metricsFile))>>]
                    ELSE [route |-> "/api/metrics", status |-> 200, body |-> r.stats,
                          metrics |-> <<MetricsAfterStats(load_metrics(metricsFile))>>]
    /\ UNCHANGED <<recorderVars, costCall, metricsFile, nowHours, toolVars>>

\* GET /: the page, which shows last_updated
Index ==
    /\ LET r == LoadAndCalculate(metricsFile, nowHours)
       IN served' = IF r.raised
                    THEN [route |-> "/", status |-> 500, body |-> <<>>,
                          metrics |-> <<MetricsAfterStats(load_metrics(metricsFile))>>]
                    ELSE [route |-> "/", status |-> 200, body |-> <<r.stats[1].last_updated>>,
                          metrics |-> <<MetricsAfterStats(load_metrics(metricsFile))>>]
    /\ UNCHANGED <<recorderVars, costCall, metricsFile, nowHours, toolVars>>

NextDashboard == ApiMetrics \/ Index

SpecDashboard == InitDashboard /\ [][NextDashboard]_vars

(***************************************************************************)
(* Longer logs: n records told apart by their cost, with timestamps that    *)
(* rise, fall, are all equal, or repeat                                     *)
(***************************************************************************)
MaxLogLen == 25

TimestampPatterns == {"rising", "falling", "equal", "pairs", "cycle"}

PatternTimestamp(pattern, i) ==
    CASE pattern = "rising" -> Iso(2300 + i)
      [] pattern = "falling" -> Iso(2400 - i)
      [] pattern = "equal" -> Iso(2400)
      [] pattern = "pairs" -> Iso(2300 + (i \div 2))
      [] OTHER -> IF i % 3 = 0 THEN IsoZ(2300 + (i % 5)) ELSE Iso(2300 + (i % 5))

PatternLog(n, pattern) ==
    [i \in 1..n |-> Metric(IF i % 2 = 0 THEN "pr_review" ELSE "unit_tests",
                           i, 10, 5, PatternTimestamp(pattern, i))]

InitRecent ==
    /\ metricsFile \in {JList(PatternLog(n, pattern)) :
                            n \in 0..MaxLogLen, pattern \in TimestampPatterns}
    /\ nowHours \in {2412, 2436}
    /\ served = NotServed
    /\ costCall = NoCostCall
    /\ ToolsOff
    /\ bin = JList(<<>>) /\ configured = TRUE /\ writers = {}
    /\ calls = 0 /\ clock = 1
    /\ pc = [p \in Procs |-> "idle"]
    /\ data = [p \in Procs |-> <<>>]
    /\ local = [p \in Procs |-> <<>>]
    /\ last = [p \in Procs |-> NoOp]
    /\ version = 0
    /\ readVer = [p \in Procs |-> 0]
    /\ acked = {}

SpecRecent == InitRecent /\ [][NextDashboard]_vars

(***************************************************************************)
(* Properties of the dashboard                                             *)
(***************************************************************************)
\* C9: when metrics.json is missing or cannot be parsed, loading it does not
\* raise and /api/metrics serves the no-data summary
C9_UnloadableFileServesNoData ==
    (served.route = "/api/metrics" /\ metricsFile.t \in {"absent", "garbage"})
    => /\ load_metrics(metricsFile) = JList(<<>>)
       /\ served.status = 200
       /\ served.body = <<NoDataStats>>

C9_Witness ==
    served.route = "/api/metrics" /\ metricsFile.t = "garbage" /\ served.status = 200

\* C10: a record that lacks a field calculate_stats reads does not abort the
\* aggregation: a summary is returned, and it still counts every record
C10_MissingFieldSkipped ==
    ( /\ served.route = "/api/metrics"
      /\ metricsFile.t = "list"
      /\ \E f \in StatsFields : Lacking(metricsFile.items, f) )
    => /\ served.status = 200
       /\ served.body[1].total_calls = Len(metricsFile.items)

\* the records of a served log, when the file is a list whose records have
\* every field calculate_stats reads
ServedLog == metricsFile.items

ServedCompleteLog ==
    /\ served.route = "/api/metrics"
    /\ metricsFile.t = "list"
    /\ metricsFile.items # <<>>
    /\ \A f \in StatsFields : ~Lacking(metricsFile.items, f)

RECURSIVE SumIdx(_, _, _)
\* the sum of a field over the records at the indices I
SumIdx(I, ms, field) ==
    IF I = {} THEN 0
    ELSE LET i == CHOOSE j \in I : TRUE
         IN ms[i][field] + SumIdx(I \ {i}, ms, field)

Parses(m) == m["timestamp"].form = "iso"

RECURSIVE Parseable(_)
\* the log without the records whose timestamp cannot be parsed
Parseable(ms) ==
    IF ms = <<>> THEN <<>>
    ELSE (IF Parses(ms[1]) THEN <<ms[1]>> ELSE <<>>) \o Parseable(Tail(ms))

\* C11: a record whose timestamp cannot be parsed is left out of dailyCost
\* only: the summary is served, the record counts in the totals and in its
\* agent's entry, and dailyCost is what it is for the log without that record
C11_BadTimestampSkipped ==
    (ServedCompleteLog /\ \E i \in 1..Len(ServedLog) : ~Parses(ServedLog[i]))
    => /\ served.status = 200
       /\ LET stats == served.body[1]
              ms == ServedLog
          IN /\ stats.total_calls = Len(ms)
             /\ stats.total_cost = SumIdx(1..Len(ms), ms, "cost")
             /\ stats.total_tokens = SumIdx(1..Len(ms), ms, "total_tokens")
             /\ \A i \in 1..Len(ms) : ms[i]["agent"] \in DOMAIN stats.agents
             /\ stats.daily_costs =
                   calculate_stats(JList(Parseable(ms)), nowHours).stats[1].daily_costs

C11_Witness ==
    /\ ServedCompleteLog
    /\ served.status = 200
    /\ \E i, j \in 1..Len(ServedLog) :
          /\ ~Parses(ServedLog[i]) /\ ServedLog[i]["timestamp"].instant >= nowHours - 30 * 24
          /\ Parses(ServedLog[j])
    /\ DOMAIN served.body[1].daily_costs # {}

\* C12: the summary of the empty log has zero totals and empty perAgent,
\* dailyCost, recentActivity and costComparison, and nothing is raised
C12_EmptyLogSummary ==
    (served.route = "/api/metrics" /\ metricsFile = JList(<<>>))
    => /\ served.status = 200
       /\ LET stats == served.body[1]
          IN /\ stats.total_cost = 0 /\ stats.total_tokens = 0 /\ stats.total_calls = 0
             /\ DOMAIN stats.agents = {}
             /\ DOMAIN stats.daily_costs = {}
             /\ stats.recent_activity = <<>>
             /\ DOMAIN stats.cost_comparison = {}

C12_Witness ==
    served.route = "/api/metrics" /\ metricsFile = JList(<<>>) /\ served.body # <<>>

\* the record's timestamp lies in the 30 days that end now
InWindow(m, at) ==
    /\ Parses(m)
    /\ at - 30 * 24 <= m["timestamp"].instant
    /\ m["timestamp"].instant <= at

C14_RecentActivity ==
    (served.route = "/api/metrics" /\ metricsFile.t = "list")
    => /\ served.status = 200
       /\ LET ms == metricsFile.items
              n == Len(ms)
              r == served.body[1].recent_activity
              Ahead(i, j) ==
                  \/ ms[i]["timestamp"].text > ms[j]["timestamp"].text
                  \/ ms[i]["timestamp"].text = ms[j]["timestamp"].text /\ i < j
              Rank(j) == Cardinality({i \in 1..n : Ahead(i, j)}) + 1
          IN /\ Len(r) = IF n < 20 THEN n ELSE 20
             /\ \A k \in 1..Len(r) : \E j \in 1..n : Rank(j) = k /\ r[k] = ms[j]

C14_Witness ==
    /\ served.route = "/api/metrics"
    /\ metricsFile.t = "list"
    /\ Len(metricsFile.items) = 25
    /\ \E i, j \in 1..25 : i # j /\ metricsFile.items[i]["timestamp"] = metricsFile.items[j]["timestamp"]
    /\ \E i \in 1..25 : metricsFile.items[i]["timestamp"].text > metricsFile.items[1]["timestamp"].text
    /\ Len(served.body[1].recent_activity) = 20

\* C15: for a non-empty log costComparison has an entry for every entry of the
\* pricing table; its cost is the summed input and output tokens at that
\* entry's rates, its savings the actual total cost minus that cost, and its
\* percentage savings / total cost * 100, or 0 when the total cost is 0
\* (cost and savings in 1e-8 dollars, the percentage as a fraction num/den)
C15_CostComparison ==
    ServedCompleteLog
    => /\ served.status = 200
       /\ LET stats == served.body[1]
              ms == ServedLog
              total_input == SumIdx(1..Len(ms), ms, "input_tokens")
              total_output == SumIdx(1..Len(ms), ms, "output_tokens")
              actual == SumIdx(1..Len(ms), ms, "cost")
              cc == stats.cost_comparison
          IN /\ DOMAIN cc = {"GPT-4", "GPT-4o", "GPT-4o mini", "Claude Sonnet 4", "Claude Opus 4"}
             /\ \A k \in DOMAIN cc :
                   /\ cc[k].cost = total_input * DASH_PRICING(k).input
                                     + total_output * DASH_PRICING(k).output
                   /\ cc[k].savings = actual * 100 - cc[k].cost
                   /\ cc[k].savings_pct.den # 0
                   /\ IF actual = 0
                      THEN cc[k].savings_pct.num = 0
                      ELSE cc[k].savings_pct = [num |-> cc[k].savings, den |-> actual]

C15_Witness ==
    /\ ServedCompleteLog
    /\ served.status = 200
    /\ served.body[1].total_cost = 0
    /\ served.body[1].cost_comparison["GPT-4"].cost > 0
    /\ served.body[1].cost_comparison["GPT-4"].savings < 0
    /\ served.body[1].cost_comparison["GPT-4"].savings_pct.num = 0

RECURSIVE SumAgents(_, _, _)
\* the sum of a field of the per-agent entries of the agents in S
SumAgents(S, agents, field) ==
    IF S = {} THEN 0
    ELSE LET a == CHOOSE b \in S : TRUE
         IN agents[a][field] + SumAgents(S \ {a}, agents, field)

\* C16: perAgent has a key for exactly the agent names of the log, each with
\* the count, token sum and cost sum of that agent's records; the per-agent
\* calls, tokens and costs add up to totalCalls, totalTokens and totalCost
C16_PerAgent ==
    ServedCompleteLog
    => /\ served.status = 200
       /\ LET stats == served.body[1]
              ms == ServedLog
              Of(a) == {i \in 1..Len(ms) : ms[i]["agent"] = a}
          IN /\ DOMAIN stats.agents = {ms[i]["agent"] : i \in 1..Len(ms)}
             /\ \A a \in DOMAIN stats.agents :
                   /\ stats.agents[a].calls = Cardinality(Of(a))
                   /\ stats.agents[a].tokens = SumIdx(Of(a), ms, "total_tokens")
                   /\ stats.agents[a].cost = SumIdx(Of(a), ms, "cost")
             /\ SumAgents(DOMAIN stats.agents, stats.agents, "calls") = stats.total_calls
             /\ SumAgents(DOMAIN stats.agents, stats.agents, "tokens") = stats.total_tokens
             /\ SumAgents(DOMAIN stats.agents, stats.agents, "cost") = stats.total_cost
             /\ stats.total_calls = Len(ms)

C16_Witness ==
    /\ ServedCompleteLog
    /\ served.status = 200
    /\ Len(ServedLog) = 2
    /\ DOMAIN served.body[1].agents = {"pr_review", "unit_tests"}
    /\ served.body[1].agents["pr_review"] = [calls |-> 1, tokens |-> 1500, cost |-> 1500000]
    /\ served.body[1].agents["unit_tests"] = [calls |-> 1, tokens |-> 3000, cost |-> 2250000]

\* the letters of the model names, in lower case
LowerChar(c) ==
    CASE c = "G" -> "g" [] c = "P" -> "p" [] c = "T" -> "t" [] c = "O" -> "o"
      [] c = "U" -> "u" [] c = "R" -> "r" [] c = "B" -> "b"
      [] OTHER -> c

Lower(s) == [i \in 1..Len(s) |-> LowerChar(s[i])]

Contains(s, part) ==
    \E i \in 1..(Len(s) - Len(part) + 1) : SubSeq(s, i, i + Len(part) - 1) = part

\* C17: a model name that contains a table key, letter case aside, is billed
\* as that key itself is (the first such key in table order)
C17_CaseInsensitiveContained ==
    costCall.result # <<>>
    => LET model == costCall.model[1]
           hits == {i \in 1..Len(PRICING_KEYS) : Contains(Lower(model), PRICING_KEYS[i])}
       IN hits # {}
          => LET first == CHOOSE i \in hits : \A j \in hits : i <= j
             IN costCall.result =
                  <<calculate_cost(PRICING_KEYS[first], costCall.input_tokens,
                                   costCall.output_tokens)>>

\* C18: a model name that matches no key of the pricing table is billed at
\* the rates of the default entry, gpt-4: 30 and 60 dollars per 1M tokens
C18_UnknownModelDefault ==
    (costCall.model = <<Mystery>> /\ costCall.result # <<>>)
    => /\ FirstMatch(Mystery) = 0
       /\ costCall.result =
             <<Round6(costCall.input_tokens * 3000 + costCall.output_tokens * 6000)>>

C18_Witness ==
    /\ costCall.model = <<Mystery>>
    /\ costCall.input_tokens = 1000
    /\ costCall.output_tokens = 2000
    /\ costCall.result = <<150000>>

\* C19: the cost is not negative, and the cost of twice the tokens is twice
\* the cost to within one unit of the sixth decimal
C19_NonNegativeLinear ==
    costCall.result # <<>>
    => LET cost == costCall.result[1]
           twice == calculate_cost(costCall.model[1], 2 * costCall.input_tokens,
                                   2 * costCall.output_tokens)
       IN /\ cost >= 0
          /\ twice - 2 * cost <= 1
          /\ 2 * cost - twice <= 1

C19_Witness ==
    /\ costCall.result # <<>>
    /\ costCall.result[1] > 0
    /\ calculate_cost(costCall.model[1], 2 * costCall.input_tokens,
                      2 * costCall.output_tokens) # 2 * costCall.result[1]

\* C20: when the log cannot be written back the operation raises to its
\* caller, and when only the read failed it does not raise
C20_WriteFailureRaises ==
    \A p \in Procs :
        /\ last[p].put \in {"http_error", "exception"} => last[p].result = "raised"
        /\ (last[p].get \in {"http_error", "exception"} /\ last[p].put = "none")
              => last[p].result # "raised"

C22_OneRecordPerCompletedCall ==
    \A p \in Procs :
        (last[p].call = "tracked_create" /\ last[p].response # <<>>)
        => /\ Len(last[p].built) = 1
           /\ last[p].response[1].usage # <<>>
           /\ last[p].built[1].tokens.input = last[p].response[1].usage[1].prompt_tokens
           /\ last[p].built[1].tokens.output = last[p].response[1].usage[1].completion_tokens

\* C23: after N records written one after the other the log read back is
\* those N records, in the order written and with the values written; the
\* list extracted from the stored document is the list last stored
C23_RoundTrip ==
    /\ PersistedLog(bin) = LogAfter(clock - 1)
    /\ last[1].sent
          => /\ ExtractRecords(GetResponseJson(bin)) = local[1]
             /\ local[1][Len(local[1])] = data[1][1]
    /\ \A r \in acked : \E i \in 1..Len(PersistedLog(bin)) : PersistedLog(bin)[i] = r

C23_Witness ==
    /\ calls = 3
    /\ clock = 4
    /\ Len(PersistedLog(bin)) = 3
    /\ \A i \in 1..3 : PersistedLog(bin)[i] = SelfTestData(SelfTestEnv, i)
    /\ Cardinality(acked) = 3

(***************************************************************************)
(* The calculator: app/services/calculator.py, app/api/routes.py and       *)
(* calculator.py. A number is an integer; a result is the fraction         *)
(* num/den in lowest terms with den > 0.                                   *)
(***************************************************************************)
\* the tracker is not running
RecorderOff ==
    /\ bin = JList(<<>>) /\ configured = TRUE /\ writers = {}
    /\ calls = 0 /\ clock = 1
    /\ pc = [p \in Procs |-> "idle"]
    /\ data = [p \in Procs |-> <<>>]
    /\ local = [p \in Procs |-> <<>>]
    /\ last = [p \in Procs |-> NoOp]
    /\ version = 0
    /\ readVer = [p \in Procs |-> 0]
    /\ acked = {}

Numbers == {-10, -2, 0, 2, 3, 7, 10}

Abs(x) == IF x < 0 THEN -x ELSE x

RECURSIVE Gcd(_, _)
Gcd(x, y) == IF y = 0 THEN x ELSE Gcd(y, x % y)

\* the number num/den, den # 0
Fraction(num, den) ==
    LET g == Gcd(Abs(num), Abs(den))
        sign == IF den < 0 THEN -1 ELSE 1
    IN [num |-> sign * (num \div g), den |-> sign * (den \div g)]

\* how a call ends: a value, or an exception with its class and message;
\* `ran` lists the operations of the service that were entered
Value(x, ran) == [raised |-> FALSE, value |-> <<x>>, ran |-> ran]
Raises(error, message, ran) ==
    [raised |-> TRUE, error |-> error, message |-> message, ran |-> ran]

add(a, b) == Value(Fraction(a + b, 1), <<"add">>)
subtract(a, b) == Value(Fraction(a - b, 1), <<"subtract">>)
multiply(a, b) == Value(Fraction(a * b, 1), <<"multiply">>)

\* divide without the test for zero: Python's own ZeroDivisionError
divide_Unguarded(a, b) ==
    IF b = 0 THEN Raises("ZeroDivisionError", "division by zero", <<"divide">>)
    ELSE Value(Fraction(a, b), <<"divide">>)

\* CalculatorService.divide, and divide of calculator.py
divide(a, b) ==
    IF b = 0 THEN Raises("ValueError", "Cannot divide by zero", <<"divide">>)
    ELSE Value(Fraction(a, b), <<"divide">>)

\* the dispatch of a table {name: function}
Dispatch(operation, a, b) ==
    CASE operation \in {"add", "+"} -> add(a, b)
      [] operation \in {"subtract", "-"} -> subtract(a, b)
      [] operation \in {"multiply", "*"} -> multiply(a, b)
      [] operation \in {"divide", "/"} -> divide(a, b)

\* a table whose entry for subtract is the addition
calculate_WrongEntry(operation, a, b) ==
    IF operation \notin {"add", "subtract", "multiply", "divide"}
    THEN Raises("ValueError", "Invalid operation", <<>>)
    ELSE IF operation = "subtract" THEN add(a, b) ELSE Dispatch(operation, a, b)

\* CalculatorService.calculate; the message goes on with the operation given
calculate(operation, a, b) ==
    IF operation \notin {"add", "subtract", "multiply", "divide"}
    THEN Raises("ValueError", "Invalid operation", <<>>)
    ELSE Dispatch(operation, a, b)

\* calculate of calculator.py, whose table is keyed by the signs
script_calculate(operation, a, b) ==
    IF operation \notin {"+", "-", "*", "/"}
    THEN Raises("ValueError", "Invalid operation", <<>>)
    ELSE Dispatch(operation, a, b)

\* an answer of the API
Ok200(operation, a, b, result) ==
    [status |-> 200, body |-> [operation |-> operation, a |-> a, b |-> b, result |-> result]]
HttpError(status, detail) == [status |-> status, detail |-> detail]

\* api_divide turning every exception into a 500
api_divide_NoValueError(a, b) ==
    LET r == divide(a, b)
    IN IF r.raised THEN HttpError(500, r.message)
       ELSE Ok200("divide", a, b, r.value[1])

\* GET /divide
api_divide(a, b) ==
    LET r == divide(a, b)
    IN IF r.raised
       THEN IF r.error = "ValueError" THEN HttpError(400, r.message)
            ELSE HttpError(500, r.message)
       ELSE Ok200("divide", a, b, r.value[1])

\* GET /add, /subtract, /multiply
api_other(operation, a, b) ==
    LET r == Dispatch(operation, a, b)
    IN IF r.raised THEN HttpError(500, r.message)
       ELSE Ok200(operation, a, b, r.value[1])

ServiceOperations == {"add", "subtract", "multiply", "divide"}
ScriptOperations == {"+", "-", "*", "/"}

CalcCalls ==
    [target : {"direct"}, operation : ServiceOperations, a : Numbers, b : Numbers]
    \cup [target : {"calculate"}, operation : ServiceOperations \cup {"invalid", "+"},
          a : Numbers, b : Numbers]
    \cup [target : {"script"}, operation : ScriptOperations \cup {"add"},
          a : Numbers, b : Numbers]
    \cup [target : {"api"}, operation : ServiceOperations, a : Numbers, b : Numbers]

InitCalculator ==
    /\ calc \in [call : {<<c>> : c \in CalcCalls}, outcome : {<<>>}]
    /\ approval = NoApproval
    /\ pr = NoPr
    /\ costCall = NoCostCall
    /\ DashboardOff
    /\ RecorderOff

Pending(target) ==
    /\ calc.call # <<>> /\ calc.outcome = <<>>
    /\ calc.call[1].target = target

\* a method of CalculatorService called by name
CallOperation ==
    /\ Pending("direct")
    /\ LET c == calc.call[1]
       IN calc' = [calc EXCEPT !.outcome = <<Dispatch(c.operation, c.a, c.b)>>]
    /\ UNCHANGED <<recorderVars, costCall, dashVars, approval, pr>>

CallCalculate ==
    /\ Pending("calculate")
    /\ LET c == calc.call[1]
       IN calc' = [calc EXCEPT !.outcome = <<calculate(c.operation, c.a, c.b)>>]
    /\ UNCHANGED <<recorderVars, costCall, dashVars, approval, pr>>

CallScriptCalculate ==
    /\ Pending("script")
    /\ LET c == calc.call[1]
       IN calc' = [calc EXCEPT !.outcome = <<script_calculate(c.operation, c.a, c.b)>>]
    /\ UNCHANGED <<recorderVars, costCall, dashVars, approval, pr>>

ApiGet ==
    /\ Pending("api")
    /\ LET c == calc.call[1]
       IN calc' = [calc EXCEPT !.outcome =
                      <<IF c.operation = "divide" THEN api_divide(c.a, c.b)
                        ELSE api_other(c.operation, c.a, c.b)>>]
    /\ UNCHANGED <<recorderVars, costCall, dashVars, approval, pr>>

NextCalculator == CallOperation \/ CallCalculate \/ CallScriptCalculate \/ ApiGet

SpecCalculator == InitCalculator /\ [][NextCalculator]_vars

(***************************************************************************)
(* Properties of the calculator                                            *)
(***************************************************************************)
Answered(target) ==
    /\ calc.call # <<>> /\ calc.outcome # <<>>
    /\ calc.call[1].target = target

\* C24: divide raises ValueError "Cannot divide by zero" exactly when b is 0;
\* GET /divide answers 400 with that message as detail when b is 0 and 200
\* with the quotient a / b otherwise
C24_DivideByZero ==
    /\ (Answered("direct") /\ calc.call[1].operation = "divide")
          => LET c == calc.call[1]
                 o == calc.outcome[1]
             IN /\ o.raised <=> c.b = 0
                /\ o.raised => o.error = "ValueError" /\ o.message = "Cannot divide by zero"
                /\ ~o.raised => o.value[1].num * c.b = c.a * o.value[1].den
    /\ (Answered("api") /\ calc.call[1].operation = "divide")
          => LET c == calc.call[1]
                 o == calc.outcome[1]
             IN IF c.b = 0
                THEN o = [status |-> 400, detail |-> "Cannot divide by zero"]
                ELSE /\ o.status = 200
                     /\ o.body.operation = "divide" /\ o.body.a = c.a /\ o.body.b = c.b
                     /\ o.body.result.num * c.b = c.a * o.body.result.den

C24_Witness ==
    /\ Answered("api")
    /\ calc.call[1] = [target |-> "api", operation |-> "divide", a |-> 10, b |-> 0]
    /\ calc.outcome[1].status = 400

\* C25: calculate(op, a, b) ends as the operation named op ends when called
\* directly, for the four operations; for any other op it raises ValueError
\* "Invalid operation" and enters no operation
C25_CalculateDispatches ==
    Answered("calculate")
    => LET c == calc.call[1]
           o == calc.outcome[1]
       IN CASE c.operation = "add" -> o = add(c.a, c.b)
            [] c.operation = "subtract" -> o = subtract(c.a, c.b)
            [] c.operation = "multiply" -> o = multiply(c.a, c.b)
            [] c.operation = "divide" -> o = divide(c.a, c.b)
            [] OTHER -> /\ o.raised
                        /\ o.error = "ValueError" /\ o.message = "Invalid operation"
                        /\ o.ran = <<>>

C25_Witness ==
    /\ Answered("calculate")
    /\ calc.call[1].operation = "subtract"
    /\ calc.call[1].a = 7 /\ calc.call[1].b = 3
    /\ calc.outcome[1] = [raised |-> FALSE, value |-> <<[num |-> 4, den |-> 1]>>,
                          ran |-> <<"subtract">>]

\* C26: for every key k of the pricing table, calculate_cost with model name k
\* bills at k's own input and output rates
C26_NoKeyShadowed ==
    \A i \in 1..Len(PRICING_KEYS) :
        (costCall.model = <<PRICING_KEYS[i]>> /\ costCall.result # <<>>)
        => costCall.result =
              <<Round6(costCall.input_tokens * PRICING(PRICING_KEYS[i]).input
                       + costCall.output_tokens * PRICING(PRICING_KEYS[i]).output)>>

\* C27: a call through the wrapper whose upstream call returned ends by
\* returning that very response, however the tracking store answered
C27_WrapperTransparent ==
    \A p \in Procs :
        (last[p].call = "tracked_create" /\ last[p].response # <<>> /\ last[p].result # "running")
        => /\ last[p].result = "returned"
           /\ last[p].returned = last[p].response

C27_Witness ==
    \E p, q \in Procs :
        /\ last[p].call = "tracked_create" /\ last[p].result = "returned"
        /\ last[p].built # <<>>
        /\ last[p].put \in {"http_error", "exception"}
        /\ last[p].returned = last[p].response
        /\ last[q].call = "tracked_create" /\ last[q].result = "returned"
        /\ last[q].get \in {"http_error", "exception"}

(***************************************************************************)
(* The approval checker: scripts/pr_approval_checker.py. A file name, a     *)
(* check name and the text of a review are told apart by what the code      *)
(* tests on them: suffix, prefix and the substrings it looks for.           *)
(***************************************************************************)
\* longest list of changed files and of check runs
MaxFiles == 4
MaxChecks == 2

MAX_FILES_FOR_AUTO_APPROVE == 3

FileNames ==
    <<"README.md", "config/secrets.yml", "docs/guide.txt", "src/app.py", "test_auth.py",
      "tests/test_api.py">>

\* filename.endswith(ext) for an ext of LOW_RISK_EXTENSIONS
EndsWithLowRiskExtension(filename) ==
    filename \in {"README.md", "config/secrets.yml", "docs/guide.txt"}

\* filename.startswith(prefix) for a prefix of LOW_RISK_PREFIXES
StartsWithLowRiskPrefix(filename) == filename \in {"test_auth.py", "tests/test_api.py"}

\* lines 122-129
is_low_risk_file(filename) ==
    IF EndsWithLowRiskExtension(filename) THEN TRUE
    ELSE IF StartsWithLowRiskPrefix(filename) THEN TRUE
    ELSE FALSE

\* lines 185-188: 'secret' in config/secrets.yml, 'auth' in test_auth.py
has_security_keywords(filename) == filename \in {"config/secrets.yml", "test_auth.py"}

\* the markers a review text contains
Markers == {"check-mark", "APPROVED", "red-circle", "Critical"}

\* pr_data["ai_review"]: "" when no comment carries the AI Code Review marker
NoReview == [found |-> FALSE, contains |-> {}]
Review(markers) == [found |-> TRUE, contains |-> markers]

Reviews ==
    { NoReview, Review({}), Review({"check-mark"}), Review({"APPROVED"}),
      Review({"check-mark", "red-circle"}), Review({"APPROVED", "Critical"}) }

\* a review that passes whatever else it says
AiReviewPassed_IgnoresCritical(ai_review) ==
    IF ai_review.found
    THEN "check-mark" \in ai_review.contains \/ "APPROVED" \in ai_review.contains
    ELSE FALSE

\* lines 142-154
AiReviewPassed(ai_review) ==
    IF ai_review.found
    THEN LET has_approval == "check-mark" \in ai_review.contains \/ "APPROVED" \in ai_review.contains
             has_critical == "red-circle" \in ai_review.contains \/ "Critical" \in ai_review.contains
         IN has_approval /\ ~has_critical
    ELSE FALSE

\* the check runs of the head commit; conclusion "null" while one is running
CheckRuns ==
    { [name |-> "Unit Tests", conclusion |-> "success"],
      [name |-> "Regression Suite", conclusion |-> "failure"],
      [name |-> "unit-tests", conclusion |-> "null"],
      [name |-> "lint", conclusion |-> "failure"] }

\* lines 164-165: 'test', 'unit' or 'regression' in the name in lower case
IsTestCheck(c) == c.name \in {"Unit Tests", "Regression Suite", "unit-tests"}

\* no checks data counted as passed
TestsPassed_UnknownIsOk(checks, low_risk_files) ==
    IF checks # <<>>
    THEN LET test_checks == SelectSeq(checks, IsTestCheck)
         IN IF test_checks # <<>>
            THEN \A i \in 1..Len(test_checks) : test_checks[i].conclusion = "success"
            ELSE low_risk_files
    ELSE TRUE

\* lines 159-180
TestsPassed(checks, low_risk_files) ==
    IF checks # <<>>
    THEN LET test_checks == SelectSeq(checks, IsTestCheck)
         IN IF test_checks # <<>>
            THEN \A i \in 1..Len(test_checks) : test_checks[i].conclusion = "success"
            ELSE low_risk_files
    ELSE FALSE

check_if_auto_approvable(pr_data) ==
    LET changed_files == pr_data.changed_files
        small_change == Len(changed_files) <= MAX_FILES_FOR_AUTO_APPROVE
        low_risk_files == \A i \in 1..Len(changed_files) : is_low_risk_file(changed_files[i])
        ai_review_passed == AiReviewPassed(pr_data.ai_review)
        tests_passed == TestsPassed(pr_data.checks, low_risk_files)
        no_security_changes ==
            ~ \E i \in 1..Len(changed_files) : has_security_keywords(changed_files[i])
        criteria == [small_change |-> small_change, low_risk_files |-> low_risk_files,
                     ai_review_passed |-> ai_review_passed, tests_passed |-> tests_passed,
                     no_security_changes |-> no_security_changes]
        failed == Cardinality({k \in DOMAIN criteria : ~criteria[k]})
    IN IF \A k \in DOMAIN criteria : criteria[k]
       THEN [auto_approve |-> TRUE, criteria_results |-> criteria,
             recommended_labels |-> <<"auto-approved", "ready-to-merge">>,
             confidence |-> "high"]
       ELSE [auto_approve |-> FALSE, criteria_results |-> criteria,
             assign_to |-> IF ~no_security_changes THEN "security-team"
                           ELSE IF ~tests_passed THEN "qa-team" ELSE "tech-lead",
             recommended_labels |-> <<"needs-review">>,
             confidence |-> IF failed >= 3 THEN "low" ELSE "medium"]

\* lists of distinct changed files, each in the order of FileNames
FileLists ==
    LET idx == UNION {[1..n -> 1..Len(FileNames)] : n \in 0..MaxFiles}
        ordered == {f \in idx : \A i \in 1..(Len(f) - 1) : f[i] < f[i + 1]}
    IN {[i \in 1..Len(f) |-> FileNames[f[i]]] : f \in ordered}

CheckLists == UNION {[1..n -> CheckRuns] : n \in 0..MaxChecks}

PrData == [changed_files : FileLists, ai_review : Reviews, checks : CheckLists]

InitApproval ==
    /\ approval \in [input : {<<d>> : d \in PrData}, decision : {<<>>}]
    /\ calc = NoCalc
    /\ pr = NoPr
    /\ costCall = NoCostCall
    /\ DashboardOff
    /\ RecorderOff

CheckIfAutoApprovable ==
    /\ approval.input # <<>> /\ approval.decision = <<>>
    /\ approval' = [approval EXCEPT !.decision = <<check_if_auto_approvable(approval.input[1])>>]
    /\ UNCHANGED <<recorderVars, costCall, dashVars, calc, pr>>

SpecApproval == InitApproval /\ [][CheckIfAutoApprovable]_vars

\* C28: auto_approve is true only if at most 3 files changed, every file is
\* low-risk, an AI review exists with an approval marker and no critical
\* marker, check data exists and every test check succeeded (or there is no
\* test check and all files are low-risk), and no file name holds a high-risk
\* keyword; otherwise auto_approve is false and the only label is needs-review
C28_AutoApproveOnlyIfAll ==
    approval.decision # <<>>
    => LET d == approval.decision[1]
           input == approval.input[1]
           files == {input.changed_files[i] : i \in 1..Len(input.changed_files)}
           testChecks == {i \in 1..Len(input.checks) : IsTestCheck(input.checks[i])}
           allLowRisk == \A f \in files : EndsWithLowRiskExtension(f) \/ StartsWithLowRiskPrefix(f)
           AllHold ==
               /\ Len(input.changed_files) <= 3
               /\ allLowRisk
               /\ input.ai_review.found
               /\ input.ai_review.contains \cap {"check-mark", "APPROVED"} # {}
               /\ input.ai_review.contains \cap {"red-circle", "Critical"} = {}
               /\ input.checks # <<>>
               /\ \A i \in testChecks : input.checks[i].conclusion = "success"
               /\ \A f \in files : ~has_security_keywords(f)
       IN /\ d.auto_approve => AllHold
          /\ ~AllHold => /\ d.auto_approve = FALSE
                         /\ d.recommended_labels = <<"needs-review">>

C28_Witness ==
    /\ approval.decision # <<>>
    /\ approval.decision[1].auto_approve
    /\ approval.input[1].changed_files = <<"README.md", "docs/guide.txt", "tests/test_api.py">>
    /\ approval.input[1].checks = <<[name |-> "lint", conclusion |-> "failure"],
                                    [name |-> "Unit Tests", conclusion |-> "success"]>>
    /\ approval.decision[1].recommended_labels = <<"auto-approved", "ready-to-merge">>

(***************************************************************************)
(* The review agent: scripts/pr_review_agent.py. Each run of the workflow   *)
(* is a process; runs of the same pull request share its comments. A        *)
(* comment is known by its id, by whether its body holds the marker         *)
(* 'AI Code Review', and by the review it carries.                          *)
(***************************************************************************)
\* runs of the agent on the pull request
MaxRuns == 2

Runs == 1..MaxRuns

HumanComment == [id |-> 1, ai |-> FALSE, text |-> "human", by |-> 0]

\* `model` is how the call of the model ended in this run
IdleRun == [pc |-> "idle", model |-> "none", review |-> "none", existing |-> <<>>, get |-> "none",
            write |-> "none", posted |-> <<>>, exit |-> <<>>]

\* review_code_with_ai letting the exception of the model call through
review_code_with_ai_NoTry(modelCall) ==
    IF modelCall = "raises" THEN [raised |-> TRUE, review |-> "none"]
    ELSE [raised |-> FALSE, review |-> "ok"]

\* lines 200-286: the text returned; "error" is the text that starts with
\* 'AI review encountered an error'
review_code_with_ai(modelCall) ==
    IF modelCall = "raises" THEN [raised |-> FALSE, review |-> "error"]
    ELSE [raised |-> FALSE, review |-> "ok"]

\* lines 353-357: the first fetched comment whose body holds the marker
FindExisting(comments) ==
    LET hits == {i \in 1..Len(comments) : comments[i].ai}
    IN IF hits = {} THEN <<>>
       ELSE <<comments[CHOOSE i \in hits : \A j \in hits : i <= j].id>>

\* the body that post_to_github builds always starts with the marker
CommentBody(id, review, r) == [id |-> id, ai |-> TRUE, text |-> review, by |-> r]

\* PATCH /issues/comments/{id}
Patched(comments, id, review, r) ==
    [i \in 1..Len(comments) |->
        IF comments[i].id = id THEN CommentBody(id, review, r) ELSE comments[i]]

\* POST /issues/{PR_NUMBER}/comments
Created(comments, review, r) == Append(comments, CommentBody(Len(comments) + 1, review, r))

InitReview ==
    /\ pr \in [phase : {"on"}, hasNumber : BOOLEAN,
               comments : {<<>>, <<HumanComment>>},
               runs : {[r \in Runs |-> IdleRun]}]
    /\ calc = NoCalc
    /\ approval = NoApproval
    /\ costCall = NoCostCall
    /\ DashboardOff
    /\ RecorderOff

SetRun(r, run) == pr' = [pr EXCEPT !.runs[r] = run]

Exit(run, code) == [run EXCEPT !.pc = "done", !.exit = <<code>>]

\* main up to the review (lines 405-441): a missing key or token exits 1,
\* nothing to review exits 0
StartRun(r) ==
    /\ pr.phase = "on" /\ pr.runs[r].pc = "idle"
    /\ \E env \in {"no_key", "no_files", "ready"} :
          SetRun(r, CASE env = "no_key" -> Exit(pr.runs[r], 1)
                      [] env = "no_files" -> Exit(pr.runs[r], 0)
                      [] OTHER -> [pr.runs[r] EXCEPT !.pc = "review"])
    /\ UNCHANGED <<recorderVars, costCall, dashVars, calc, approval>>

\* lines 444-460 and 317-322: the review, its validation, and post_to_github
\* up to its GET; an exception in main ends the run with exit code 1
ReviewCode(r) ==
    /\ pr.phase = "on" /\ pr.runs[r].pc = "review"
    /\ \E modelCall \in {"raises", "returns"} :
          LET o == review_code_with_ai(modelCall)
              run == [pr.runs[r] EXCEPT !.model = modelCall, !.review = o.review]
          IN SetRun(r, IF o.raised THEN Exit(run, 1)
                       ELSE IF ~pr.hasNumber THEN Exit([run EXCEPT !.get = "skipped"], 0)
                       ELSE [run EXCEPT !.pc = "get"])
    /\ UNCHANGED <<recorderVars, costCall, dashVars, calc, approval>>

\* lines 348-357: the GET of the comments; a failure is caught (lines 375-378)
GetComments(r) ==
    /\ pr.phase = "on" /\ pr.runs[r].pc = "get"
    /\ \E answer \in {"ok", "failed"} :
          SetRun(r, IF answer = "failed"
                    THEN Exit([pr.runs[r] EXCEPT !.get = "failed"], 0)
                    ELSE [pr.runs[r] EXCEPT !.get = "ok", !.pc = "write",
                                            !.existing = FindExisting(pr.comments)])
    /\ UNCHANGED <<recorderVars, costCall, dashVars, calc, approval>>

\* lines 359-371: PATCH the comment found, or POST a new one; then main goes
\* on to its end and exits 0
WriteComment(r) ==
    /\ pr.phase = "on" /\ pr.runs[r].pc = "write"
    /\ \E answer \in {"ok", "failed"} :
          LET run == pr.runs[r]
          IN IF answer = "failed"
             THEN SetRun(r, Exit([run EXCEPT !.write = "failed"], 0))
             ELSE IF run.existing # <<>>
             THEN pr' = [pr EXCEPT
                           !.comments = Patched(pr.comments, run.existing[1], run.review, r),
                           !.runs[r] = Exit([run EXCEPT !.write = "patched",
                                                        !.posted = run.existing], 0)]
             ELSE pr' = [pr EXCEPT
                           !.comments = Created(pr.comments, run.review, r),
                           !.runs[r] = Exit([run EXCEPT !.write = "created",
                                                        !.posted = <<Len(pr.comments) + 1>>], 0)]
    /\ UNCHANGED <<recorderVars, costCall, dashVars, calc, approval>>

NextReview ==
    \E r \in Runs : StartRun(r) \/ ReviewCode(r) \/ GetComments(r) \/ WriteComment(r)

SpecReview == InitReview /\ [][NextReview]_vars

AiComments == {i \in 1..Len(pr.comments) : pr.comments[i].ai}

\* C29: the pull request carries at most one comment with the AI Code Review
\* marker, and a run creates a comment only when it found none
C29_AtMostOneReviewComment ==
    /\ Cardinality(AiComments) <= 1
    /\ \A r \in Runs : pr.runs[r].write = "created" => pr.runs[r].existing = <<>>

\* C30: a run whose model call raised has the error-message review, has gone
\* on to post_to_github, and exits with code 0; when the pull request number is
\* set and GitHub answered both requests, its comment is on the pull request
C30_ModelFailureDoesNotFail ==
    \A r \in Runs :
        pr.runs[r].model = "raises"
        => /\ pr.runs[r].review = "error"
           /\ pr.runs[r].pc = "get" \/ pr.runs[r].get # "none"
           /\ pr.runs[r].exit # <<>> => pr.runs[r].exit = <<0>>
           /\ (pr.runs[r].pc = "done" /\ pr.hasNumber /\ pr.runs[r].get = "ok"
                 /\ pr.runs[r].write # "failed")
                 => /\ pr.runs[r].posted # <<>>
                    /\ \E i \in AiComments : pr.comments[i].id = pr.runs[r].posted[1]

C30_Witness ==
    \E r \in Runs :
        /\ pr.runs[r].model = "raises"
        /\ pr.runs[r].review = "error"
        /\ pr.runs[r].exit = <<0>>
        /\ pr.runs[r].write = "created"
        /\ \E i \in AiComments : pr.comments[i].text = "error" /\ pr.comments[i].by = r

====
